---- MODULE Spec2Model ----
(***************************************************************************)
(* A model of github.com/jon4hz/console: the command type (cmd.go) and the *)
(* Console with its registry, lifecycle and read loop (console.go).        *)
(*                                                                         *)
(* Strings are sequences of one-character strings, so that strings.Split   *)
(* and strings.TrimSpace are computed character by character.              *)
(***************************************************************************)
EXTENDS Integers, Sequences, FiniteSets, TLC

VARIABLES
    consoles,    \* console id -> the fields of that *Console (made = FALSE: not constructed)
    cmdConsole,  \* command id -> the Cmd.Console back-reference (NilConsole: nil pointer)
    parentDone,  \* the caller-supplied parent context (WithContext) has been cancelled
    crashed,     \* the process died of a runtime panic
    last         \* the most recent call: its arguments, its result and the calls it made

vars == <<consoles, cmdConsole, parentDone, crashed, last>>

(***************************************************************************)
(* Bounds of the model.                                                    *)
(***************************************************************************)
MaxInputLen == 3   \* longest raw input handed to Match on its own
MaxArgs     == 2   \* most candidates in one RegisterCommands call
MaxUserCmds == 2   \* most commands appended to one registry after construction
MaxHistory  == 1   \* most non-blank lines one read loop takes

(***************************************************************************)
(* Strings.                                                                *)
(***************************************************************************)
WhiteSpace == {" ", "\t", "\n", "\r", "\f"}

sEmpty == << >>
sHelp  == <<"h", "e", "l", "p">>
sClear == <<"c", "l", "e", "a", "r">>
sQuit  == <<"q", "u", "i", "t">>
sExit  == <<"e", "x", "i", "t">>
sEcho  == <<"e", "c", "h", "o">>
sPrint == <<"p", "r", "i", "n", "t">>
sFail  == <<"f", "a", "i", "l">>
sNope  == <<"n", "o", "p", "e">>
sLeave == <<"l", "e", "a", "v", "e">>

\* strings.Split(s, " "): the pieces of s between single spaces
RECURSIVE Split(_)
Split(s) ==
    IF \A i \in 1..Len(s) : s[i] # " "
    THEN <<s>>
    ELSE LET k == CHOOSE i \in 1..Len(s) :
                      s[i] = " " /\ \A j \in 1..(i - 1) : s[j] # " "
         IN  <<SubSeq(s, 1, k - 1)>> \o Split(SubSeq(s, k + 1, Len(s)))

\* strings.Join(parts, " ")
RECURSIVE Join(_)
Join(parts) ==
    IF Len(parts) = 0 THEN sEmpty
    ELSE IF Len(parts) = 1 THEN parts[1]
    ELSE parts[1] \o <<" ">> \o Join(Tail(parts))

\* strings.TrimSpace(s): s without its leading and trailing white space
TrimSpace(s) ==
    IF \A i \in 1..Len(s) : s[i] \in WhiteSpace
    THEN sEmpty
    ELSE LET lo == CHOOSE i \in 1..Len(s) :
                       s[i] \notin WhiteSpace /\ \A j \in 1..(i - 1) : s[j] \in WhiteSpace
             hi == CHOOSE i \in 1..Len(s) :
                       s[i] \notin WhiteSpace /\ \A j \in (i + 1)..Len(s) : s[j] \in WhiteSpace
         IN  SubSeq(s, lo, hi)

\* cmd.go splitCmdArgs: <<args[0], args[1:]>>
MutSplitCmdArgsWhole(cmd) == <<cmd, << >>>>

splitCmdArgs(cmd) ==
    LET args == Split(cmd) IN <<args[1], Tail(args)>>

(***************************************************************************)
(* Cmd (cmd.go): the fields of a command that are fixed once it is built.  *)
(* The Console field changes on registration and is the variable           *)
(* cmdConsole.                                                             *)
(***************************************************************************)
NoMatcher == "nil"
NoHandler == "nil"

\* custom matchers the embedding code supplies (Cmd.Matcher)
RunMatcher(m, cmd) ==
    CASE m = "matchAny"  -> TRUE
      [] m = "matchBang" -> \E i \in 1..Len(cmd) : cmd[i] = "!"
      [] OTHER           -> FALSE

Cmd(id, name, aliases, ignorePipe, matcher, ignoreDefault, handler) ==
    [id |-> id, Name |-> name, Aliases |-> aliases, IgnorePipe |-> ignorePipe,
     Matcher |-> matcher, IgnoreDefaultMatcher |-> ignoreDefault, Handler |-> handler]

helpCmd  == Cmd("helpCmd", sHelp, << >>, FALSE, NoMatcher, FALSE, "help")
quitCmd  == Cmd("quitCmd", sQuit, <<sExit>>, TRUE, NoMatcher, FALSE, "quit")
clearCmd == Cmd("clearCmd", sClear, << >>, TRUE, NoMatcher, FALSE, "clear")

MutDefaultCmdsWithQuit == <<"helpCmd", "clearCmd", "quitCmd">>

defaultCmds == <<"helpCmd", "clearCmd">>

\* Cmd.defaultMatcher: the first token equals the name or an alias
defaultMatcher(c, cmd) ==
    LET tok == splitCmdArgs(cmd)[1]
    IN  \/ tok = c.Name
        \/ \E i \in DOMAIN c.Aliases : tok = c.Aliases[i]

\* Cmd.Match, and whether it called the custom matcher
MutMatchMatcherFirst(c, cmd) ==
    IF c.Matcher # NoMatcher THEN RunMatcher(c.Matcher, cmd)
    ELSE defaultMatcher(c, cmd) /\ ~c.IgnoreDefaultMatcher

Match(c, cmd) ==
    IF defaultMatcher(c, cmd) /\ ~c.IgnoreDefaultMatcher THEN TRUE
    ELSE IF c.Matcher # NoMatcher THEN RunMatcher(c.Matcher, cmd)
    ELSE FALSE

MatcherInvoked(c, cmd) ==
    /\ ~(defaultMatcher(c, cmd) /\ ~c.IgnoreDefaultMatcher)
    /\ c.Matcher # NoMatcher


(***************************************************************************)
(* The commands of the embedding code: echoCmd of console_test.go (no      *)
(* handler), echoMain of example/echo (a handler), printCmd with aliases   *)
(* and no handler, failCmd with a custom matcher and a failing handler.    *)
(***************************************************************************)
echoCmd  == Cmd("echoCmd", sEcho, << >>, FALSE, NoMatcher, FALSE, NoHandler)
echoMain == Cmd("echoMain", sEcho, << >>, FALSE, NoMatcher, FALSE, "ok")
printCmd == Cmd("printCmd", sPrint, <<sExit, sEcho>>, TRUE, NoMatcher, FALSE, NoHandler)
failCmd  == Cmd("failCmd", sFail, << >>, TRUE, "matchBang", FALSE, "err")

\* a command with a handler and the default matcher only, with alias "exit"
leaveCmd == Cmd("leaveCmd", sLeave, <<sExit>>, FALSE, NoMatcher, FALSE, "ok")

UserCmds == {echoCmd, echoMain, printCmd, failCmd}
AllCmds  == {helpCmd, clearCmd, quitCmd, leaveCmd} \cup UserCmds
CmdIds   == {c.id : c \in AllCmds}
Obj(id)  == CHOOSE c \in AllCmds : c.id = id

\* what the embedding code passes to RegisterCommands and Handle
RegCands == {c.id : c \in UserCmds}

\* what WithExitCmd is given
ExitOpts == {"failCmd", "nil"}

(***************************************************************************)
(* Console (console.go).                                                   *)
(***************************************************************************)
ConsoleIds   == {"c1", "c2"}
MainConsoles == {"c1"}
NilConsole   == "nil"
NilCmd       == "nil"

Nil             == "nil"
ErrCmdNoHandler == "command has no handler"
ErrDuplicate    == "command matches an existing command"
ErrHandler      == "handler error"
Panic           == "panic: nil pointer dereference"

ErrPromptAborted == "prompt aborted"
EOF              == "EOF"
ErrRead          == "read error"

\* a Console that New has not built
NoConsole ==
    [made |-> FALSE, opts |-> {}, parentCtx |-> "background", cancelled |-> FALSE,
     isOsPipe |-> FALSE, linerClosed |-> FALSE, history |-> << >>,
     historyFile |-> << >>, historySaved |-> FALSE,
     cmds |-> << >>, exitCmd |-> NilCmd, startPc |-> "idle", readPc |-> "idle"]

\* one call in a trace: the callee, the command and Console it is made on, its argument
Ev(ev, cmd, con, arg) == [ev |-> ev, cmd |-> cmd, con |-> con, arg |-> arg]

\* the world a call runs in, and the calls it has made so far
World == [consoles |-> consoles, cmdConsole |-> cmdConsole, crashed |-> crashed,
          trace |-> << >>]

Log(w, e) == [w EXCEPT !.trace = Append(@, e)]

\* <-c.ctx.Done() is ready: Close cancelled it, or its parent was cancelled
CtxDone(con, pd) == con.cancelled \/ (con.parentCtx = "user" /\ pd)

\* Console.Close: cancel, writeHistory, liner.Close; returns nil
Close(w, c) ==
    LET w1 == Log(Log(Log(w, Ev("cancel", NilCmd, c, sEmpty)),
                      Ev("WriteHistory", NilCmd, c, sEmpty)),
                  Ev("LinerClose", NilCmd, c, sEmpty))
    IN  [w1 EXCEPT !.consoles[c].cancelled = TRUE,
                   !.consoles[c].historyFile = w.consoles[c].history,
                   !.consoles[c].historySaved = TRUE,
                   !.consoles[c].linerClosed = TRUE]

\* the handlers (Cmd.Handler): the three built in, and the embedding code's
RunHandler(w, h, c, cmd) ==
    CASE h = "quit" -> [w |-> Close(w, c), ret |-> Nil]
      [] h = "err"  -> [w |-> w, ret |-> ErrHandler]
      [] OTHER      -> [w |-> w, ret |-> Nil]

\* Cmd.Handle
MutHandleNoPipeCheck(w, id, cmd) ==
    LET c  == Obj(id)
        on == w.cmdConsole[id]
        w1 == Log(w, Ev("Handle", id, on, cmd))
    IN  IF on = NilConsole
        THEN [w |-> [w1 EXCEPT !.crashed = TRUE], ret |-> Panic]
        ELSE IF c.Handler # NoHandler
        THEN RunHandler(Log(w1, Ev("Handler", id, on, cmd)), c.Handler, on, cmd)
        ELSE [w |-> w1, ret |-> ErrCmdNoHandler]

MutHandleNoHandlerNil(w, id, cmd) ==
    LET c  == Obj(id)
        on == w.cmdConsole[id]
        w1 == Log(w, Ev("Handle", id, on, cmd))
    IN  IF on = NilConsole
        THEN [w |-> [w1 EXCEPT !.crashed = TRUE], ret |-> Panic]
        ELSE IF w.consoles[on].isOsPipe /\ c.IgnorePipe
        THEN [w |-> w1, ret |-> Nil]
        ELSE IF c.Handler # NoHandler
        THEN RunHandler(Log(w1, Ev("Handler", id, on, cmd)), c.Handler, on, cmd)
        ELSE [w |-> w1, ret |-> Nil]

Handle(w, id, cmd) ==
    LET c  == Obj(id)
        on == w.cmdConsole[id]
        w1 == Log(w, Ev("Handle", id, on, cmd))
    IN  IF on = NilConsole
        THEN [w |-> [w1 EXCEPT !.crashed = TRUE], ret |-> Panic]
        ELSE IF w.consoles[on].isOsPipe /\ c.IgnorePipe
        THEN [w |-> w1, ret |-> Nil]
        ELSE IF c.Handler # NoHandler
        THEN RunHandler(Log(w1, Ev("Handler", id, on, cmd)), c.Handler, on, cmd)
        ELSE [w |-> w1, ret |-> ErrCmdNoHandler]

\* Console.ExitCmd, then Console.handleInput: the exit command first, then the
\* registry in order up to its first match; the result is <<exit, err>>
RECURSIVE ScanCmds(_, _, _, _)
ScanCmds(w, c, input, i) ==
    IF i > Len(w.consoles[c].cmds)
    THEN [w |-> w, exit |-> FALSE, err |-> Nil]
    ELSE LET id == w.consoles[c].cmds[i]
             w1 == Log(w, Ev("Match", id, c, input))
             w2 == IF MatcherInvoked(Obj(id), input)
                   THEN Log(w1, Ev("Matcher", id, c, input)) ELSE w1
         IN  IF Match(Obj(id), input)
             THEN [w |-> Handle(w2, id, input).w, exit |-> FALSE, err |-> Nil]
             ELSE ScanCmds(w2, c, input, i + 1)

handleInput(w, c, input) ==
    LET e  == w.consoles[c].exitCmd
        w1 == Log(w, Ev("Match", e, c, input))
        w2 == IF MatcherInvoked(Obj(e), input)
              THEN Log(w1, Ev("Matcher", e, c, input)) ELSE w1
    IN  IF e = NilCmd THEN ScanCmds(w, c, input, 1)
        ELSE IF Match(Obj(e), input)
        THEN LET h == Handle(w2, e, input)
             IN  [w |-> h.w, exit |-> TRUE, err |-> h.ret]
        ELSE ScanCmds(w2, c, input, 1)

\* one turn of the loop of Console.read, from liner.Prompt to the next turn
\* or the break: brk tells whether the loop has ended (and doneC is closed)
MutReadTurnNoTrim(w, c, out) ==
    LET w0 == Log(w, Ev("Prompt", NilCmd, c, sEmpty))
    IN  IF out.err # Nil THEN [w |-> w0, brk |-> TRUE]
        ELSE IF out.line = sEmpty THEN [w |-> w0, brk |-> FALSE]
        ELSE LET w1 == [Log(w0, Ev("AppendHistory", NilCmd, c, out.line))
                          EXCEPT !.consoles[c].history = Append(@, out.line)]
                 r  == handleInput(w1, c, out.line)
             IN  [w |-> r.w, brk |-> r.err = Nil /\ r.exit]

MutReadTurnEOFContinues(w, c, out) ==
    LET w0 == Log(w, Ev("Prompt", NilCmd, c, sEmpty))
        in == TrimSpace(out.line)
    IN  IF out.err # Nil THEN [w |-> w0, brk |-> out.err # EOF]
        ELSE IF in = sEmpty THEN [w |-> w0, brk |-> FALSE]
        ELSE LET w1 == [Log(w0, Ev("AppendHistory", NilCmd, c, in))
                          EXCEPT !.consoles[c].history = Append(@, in)]
                 r  == handleInput(w1, c, in)
             IN  [w |-> r.w, brk |-> r.err = Nil /\ r.exit]

ReadTurn(w, c, out) ==
    LET w0 == Log(w, Ev("Prompt", NilCmd, c, sEmpty))
        in == TrimSpace(out.line)
    IN  IF out.err # Nil THEN [w |-> w0, brk |-> TRUE]
        ELSE IF in = sEmpty THEN [w |-> w0, brk |-> FALSE]
        ELSE LET w1 == [Log(w0, Ev("AppendHistory", NilCmd, c, in))
                          EXCEPT !.consoles[c].history = Append(@, in)]
                 r  == handleInput(w1, c, in)
             IN  [w |-> r.w, brk |-> r.err = Nil /\ r.exit]

\* the name and aliases of a command
Values(c) == {c.Name} \cup {c.Aliases[i] : i \in DOMAIN c.Aliases}

\* Console.checkCmdRegistered
MutCheckNameOnly(w, c, id) ==
    \E i \in DOMAIN w.consoles[c].cmds :
        Obj(w.consoles[c].cmds[i]).Name = Obj(id).Name

MutCheckAliasesOnly(w, c, id) ==
    \E i \in DOMAIN w.consoles[c].cmds :
        \E v \in Values(Obj(w.consoles[c].cmds[i])) :
            \E a \in DOMAIN Obj(id).Aliases : Obj(id).Aliases[a] = v

checkCmdRegistered(w, c, id) ==
    \E i \in DOMAIN w.consoles[c].cmds :
        \E v \in Values(Obj(w.consoles[c].cmds[i])) :
            \/ v = Obj(id).Name
            \/ \E a \in DOMAIN Obj(id).Aliases : Obj(id).Aliases[a] = v

\* Console.RegisterCommands, from candidate i on
RECURSIVE MutRegisterFromNoConsole(_, _, _, _)
MutRegisterFromNoConsole(w, c, cmds, i) ==
    IF i > Len(cmds) THEN [w |-> w, ret |-> Nil]
    ELSE IF checkCmdRegistered(w, c, cmds[i]) THEN [w |-> w, ret |-> ErrDuplicate]
    ELSE MutRegisterFromNoConsole([w EXCEPT !.consoles[c].cmds = Append(@, cmds[i])],
                                  c, cmds, i + 1)

RECURSIVE RegisterFrom(_, _, _, _)
RegisterFrom(w, c, cmds, i) ==
    IF i > Len(cmds) THEN [w |-> w, ret |-> Nil]
    ELSE IF checkCmdRegistered(w, c, cmds[i]) THEN [w |-> w, ret |-> ErrDuplicate]
    ELSE RegisterFrom([w EXCEPT !.cmdConsole[cmds[i]] = c,
                                !.consoles[c].cmds = Append(@, cmds[i])],
                      c, cmds, i + 1)

(***************************************************************************)
(* What the environment supplies.                                          *)
(***************************************************************************)
\* os.Stdin.Stat(): a terminal, a named pipe, or an error
StatResults == {"tty", "pipe", "error"}

\* the option lists New is given: WithExitCmd, WithContext
OptLists == {<<ex, cx>> : ex \in {"default"} \cup ExitOpts, cx \in BOOLEAN}

\* the argument lists of RegisterCommands
RECURSIVE SeqsUpTo(_, _)
SeqsUpTo(S, n) ==
    IF n = 0 THEN {<< >>}
    ELSE SeqsUpTo(S, n - 1) \cup
         {Append(q, x) : q \in {r \in SeqsUpTo(S, n - 1) : Len(r) = n - 1}, x \in S}

ArgLists == SeqsUpTo(RegCands, MaxArgs)

\* the lines liner.Prompt returns
BlankLines == {sEmpty, <<"\t", " ">>}
RawLines ==
    BlankLines \cup
    {sQuit, sExit, sHelp, sFail,
     <<" ">> \o sEcho \o <<" ", "a", " ", "b", " ", "\t">>,
     sEcho \o <<" ", "!">>}

PromptResults ==
    {[err |-> Nil, line |-> l] : l \in RawLines} \cup
    {[err |-> e, line |-> sEmpty] : e \in {ErrPromptAborted, EOF, ErrRead}}

\* the inputs the embedding code hands to Cmd.Handle itself
HandleInputs == {sEcho, sNope}

(***************************************************************************)
(* The state machine.                                                      *)
(***************************************************************************)
Call(op, con, cmd, cands, input, ret, trace) ==
    [op |-> op, con |-> con, cmd |-> cmd, cands |-> cands, input |-> input,
     ret |-> ret, trace |-> trace]

Init ==
    /\ consoles = [c \in ConsoleIds |-> NoConsole]
    /\ cmdConsole = [id \in CmdIds |-> NilConsole]
    /\ parentDone = FALSE
    /\ crashed = FALSE
    /\ last = Call("none", NilConsole, NilCmd, << >>, sEmpty, Nil, << >>)

Commit(w) ==
    /\ consoles' = w.consoles
    /\ cmdConsole' = w.cmdConsole
    /\ crashed' = w.crashed

\* fileIsPipe: the error of Stat is dropped and fi.Mode() is called on its result
fileIsPipe(stat) ==
    IF stat = "error" THEN [isPipe |-> FALSE, err |-> Nil, panics |-> TRUE]
    ELSE [isPipe |-> stat = "pipe", err |-> Nil, panics |-> FALSE]

\* New(opts...)
New(c, stat, opts) ==
    /\ ~crashed
    /\ ~consoles[c].made
    /\ LET p == fileIsPipe(stat)
       IN  IF p.panics
           THEN /\ crashed' = TRUE
                /\ last' = Call("New", c, NilCmd, opts, <<stat>>, Panic, << >>)
                /\ UNCHANGED <<consoles, cmdConsole, parentDone>>
           ELSE IF p.err # Nil
           THEN /\ last' = Call("New", c, NilCmd, opts, <<stat>>, p.err, << >>)
                /\ UNCHANGED <<consoles, cmdConsole, parentDone, crashed>>
           ELSE /\ consoles' = [consoles EXCEPT ![c] =
                       [NoConsole EXCEPT
                          !.made = TRUE,
                          !.opts = (IF opts[1] # "default" THEN {"WithExitCmd"} ELSE {})
                                   \cup (IF opts[2] THEN {"WithContext"} ELSE {}),
                          !.parentCtx = IF opts[2] THEN "user" ELSE "background",
                          !.isOsPipe = p.isPipe,
                          !.cmds = defaultCmds,
                          !.exitCmd = IF opts[1] = "default" THEN "quitCmd" ELSE opts[1]]]
                /\ last' = Call("New", c, NilCmd, opts, <<stat>>, Nil, << >>)
                /\ UNCHANGED <<cmdConsole, parentDone, crashed>>

\* c.RegisterCommands(cmds...), before Start
RegisterCommands(c, cmds) ==
    /\ ~crashed
    /\ consoles[c].made
    /\ consoles[c].startPc = "idle"
    /\ Len(consoles[c].cmds) + Len(cmds) <= Len(defaultCmds) + MaxUserCmds
    /\ LET r == RegisterFrom(World, c, cmds, 1)
       IN  /\ Commit(r.w)
           /\ last' = Call("RegisterCommands", c, NilCmd, cmds, sEmpty, r.ret, r.w.trace)
    /\ UNCHANGED parentDone

\* cmd.Handle(input), called by the embedding code before Start
HandleCall(id, input) ==
    /\ ~crashed
    /\ \E c \in ConsoleIds : consoles[c].made
    /\ \A c \in ConsoleIds : consoles[c].startPc = "idle"
    /\ LET r == Handle(World, id, input)
       IN  /\ Commit(r.w)
           /\ last' = Call("Handle", cmdConsole[id], id, << >>, input, r.ret, r.w.trace)
    /\ UNCHANGED parentDone

\* c.Close(), called by the embedding code
CloseCall(c) ==
    /\ ~crashed
    /\ consoles[c].made
    /\ LET w == Close(World, c)
       IN  /\ Commit(w)
           /\ last' = Call("Close", c, NilCmd, << >>, sEmpty, Nil, w.trace)
    /\ UNCHANGED parentDone

\* c.Start() up to the select of Console.read: the read task is started
Start(c) ==
    /\ ~crashed
    /\ consoles[c].made
    /\ consoles[c].startPc = "idle"
    /\ consoles' = [consoles EXCEPT ![c].startPc = "waiting", ![c].readPc = "prompt"]
    /\ last' = Call("Start", c, NilCmd, << >>, sEmpty, Nil, << >>)
    /\ UNCHANGED <<cmdConsole, parentDone, crashed>>

\* the read task takes one turn of its loop
ReadLine(c, out) ==
    /\ ~crashed
    /\ consoles[c].readPc = "prompt"
    /\ \/ out.err # Nil
       \/ TrimSpace(out.line) = sEmpty
       \/ Len(consoles[c].history) < MaxHistory
    /\ LET r == ReadTurn(World, c, out)
           w == IF r.brk /\ ~r.w.crashed
                THEN [r.w EXCEPT !.consoles[c].readPc = "done"] ELSE r.w
       IN  /\ Commit(w)
           /\ last' = Call("read", c, NilCmd, << >>, out.line, out.err, w.trace)
    /\ UNCHANGED parentDone

\* the select of Console.read: doneC is closed or the context is done
MutStartReturnNoWait(c) ==
    /\ ~crashed
    /\ consoles[c].startPc = "waiting"
    /\ consoles' = [consoles EXCEPT ![c].startPc = "returned"]
    /\ last' = Call("StartReturn", c, NilCmd, << >>, sEmpty, Nil, << >>)
    /\ UNCHANGED <<cmdConsole, parentDone, crashed>>

MutStartReturnDoneOnly(c) ==
    /\ ~crashed
    /\ consoles[c].startPc = "waiting"
    /\ consoles[c].readPc = "done"
    /\ consoles' = [consoles EXCEPT ![c].startPc = "returned"]
    /\ last' = Call("StartReturn", c, NilCmd, << >>, sEmpty, Nil, << >>)
    /\ UNCHANGED <<cmdConsole, parentDone, crashed>>

StartReturn(c) ==
    /\ ~crashed
    /\ consoles[c].startPc = "waiting"
    /\ consoles[c].readPc = "done" \/ CtxDone(consoles[c], parentDone)
    /\ consoles' = [consoles EXCEPT ![c].startPc = "returned"]
    /\ last' = Call("StartReturn", c, NilCmd, << >>, sEmpty, Nil, << >>)
    /\ UNCHANGED <<cmdConsole, parentDone, crashed>>

\* the embedding code cancels the context it gave to WithContext
CancelParent ==
    /\ ~crashed
    /\ ~parentDone
    /\ \E c \in ConsoleIds : consoles[c].made /\ consoles[c].parentCtx = "user"
    /\ parentDone' = TRUE
    /\ last' = Call("CancelParent", NilConsole, NilCmd, << >>, sEmpty, Nil, << >>)
    /\ UNCHANGED <<consoles, cmdConsole, crashed>>

Next ==
    \/ \E c \in MainConsoles, stat \in StatResults, opts \in OptLists : New(c, stat, opts)
    \/ \E c \in MainConsoles, cmds \in ArgLists : RegisterCommands(c, cmds)
    \/ \E id \in RegCands, input \in HandleInputs : HandleCall(id, input)
    \/ \E c \in MainConsoles : CloseCall(c)
    \/ \E c \in MainConsoles : Start(c)
    \/ \E c \in MainConsoles, out \in PromptResults : ReadLine(c, out)
    \/ \E c \in MainConsoles : StartReturn(c)
    \/ CancelParent

Spec == Init /\ [][Next]_vars

\* Consoles whose commands all have a handler and only the default matcher:
\* New without options, then echoMain and leaveCmd as candidates
HandlerCands == {"echoMain", "leaveCmd"}

HandlerResults ==
    {[err |-> Nil, line |-> l] : l \in {sEcho, sLeave, sExit, sNope}} \cup
    {[err |-> EOF, line |-> sEmpty]}

NextHandlers ==
    \/ \E c \in MainConsoles, stat \in {"tty", "pipe"} : New(c, stat, <<"default", FALSE>>)
    \/ \E c \in MainConsoles, cmds \in SeqsUpTo(HandlerCands, MaxArgs) :
           RegisterCommands(c, cmds)
    \/ \E c \in MainConsoles : CloseCall(c)
    \/ \E c \in MainConsoles : Start(c)
    \/ \E c \in MainConsoles, out \in HandlerResults : ReadLine(c, out)
    \/ \E c \in MainConsoles : StartReturn(c)

SpecHandlers == Init /\ [][NextHandlers]_vars

\* the task blocked in the select of Console.read runs once a case is ready
SpecFair == Spec /\ WF_vars(\E c \in MainConsoles : StartReturn(c))

(***************************************************************************)
(* Cmd.Match on its own: every command of MatchCmds on every input of      *)
(* MatchInputs.                                                            *)
(***************************************************************************)
MatchAlphabet == {"a", "b", " ", "!"}

RECURSIVE StringsUpTo(_)
StringsUpTo(n) ==
    IF n = 0 THEN {sEmpty}
    ELSE StringsUpTo(n - 1) \cup
         {Append(q, x) : q \in {r \in StringsUpTo(n - 1) : Len(r) = n - 1},
                         x \in MatchAlphabet}

MatchInputs == StringsUpTo(MaxInputLen)

MatchCmds ==
    {Cmd("m", name, aliases, FALSE, matcher, ignoreDefault, NoHandler) :
        name \in {sEmpty, <<"a">>, <<"a", "b">>, <<"a", " ", "b">>},
        aliases \in {<< >>, <<<<"b">>, <<"b", "a">>>>},
        matcher \in {NoMatcher, "matchAny", "matchBang"},
        ignoreDefault \in BOOLEAN}

\* c.Match(input), called once by the embedding code
MatchCall(c, input) ==
    /\ last.op = "none"
    /\ last' = Call("Match", NilConsole, c, << >>, input, Match(c, input),
                    IF MatcherInvoked(c, input)
                    THEN <<Ev("Matcher", c.id, NilConsole, input)>> ELSE << >>)
    /\ UNCHANGED <<consoles, cmdConsole, parentDone, crashed>>

NextMatch == \E c \in MatchCmds, input \in MatchInputs : MatchCall(c, input)

SpecMatch == Init /\ [][NextMatch]_vars

(***************************************************************************)
(* Properties.                                                             *)
(***************************************************************************)
IsBlank(s) == \A i \in 1..Len(s) : s[i] \in WhiteSpace
NoSpace(s) == \A i \in 1..Len(s) : s[i] # " "
HasEv(trace, evs) == \E i \in DOMAIN trace : trace[i].ev \in evs
\* s is name, one space, anything
NameThenArgs(s, name) ==
    /\ Len(s) > Len(name)
    /\ SubSeq(s, 1, Len(name)) = name
    /\ s[Len(name) + 1] = " "
Disjoint(a, b) == Values(Obj(a)) \cap Values(Obj(b)) = {}

\* C1: RegisterCommands(c1..cn) fails exactly when some candidate shares a name
\* or alias with a registry entry or with an earlier candidate of the call;
\* otherwise it returns nil and the registry is the old one followed by c1..cn.
C1_RegisterCommands ==
    [][last'.op = "RegisterCommands" =>
         LET old      == consoles[last'.con].cmds
             cands    == last'.cands
             conflict == \E k \in DOMAIN cands :
                             \/ \E i \in DOMAIN old : ~Disjoint(old[i], cands[k])
                             \/ \E j \in 1..(k - 1) : ~Disjoint(cands[j], cands[k])
         IN  /\ (last'.ret # Nil) <=> conflict
             /\ ~conflict => /\ last'.ret = Nil
                             /\ consoles'[last'.con].cmds = old \o cands]_vars

C1_Witness ==
    /\ last.op = "RegisterCommands"
    /\ last.ret = Nil
    /\ last.cands = <<"echoMain", "failCmd">>
    /\ consoles[last.con].cmds = defaultCmds \o <<"echoMain", "failCmd">>

\* C2 as stated: for every command with empty aliases, Match(name) and
\* Match(name + " " + anything) are true, and Match(other) is false when the
\* first token of other is not the name and no custom matcher accepts other.
C2_Original ==
    (last.op = "Match" /\ last.cmd.Aliases = << >>) =>
        /\ last.input = last.cmd.Name => last.ret
        /\ NameThenArgs(last.input, last.cmd.Name) => last.ret
        /\ ( /\ Split(last.input)[1] # last.cmd.Name
             /\ ~(last.cmd.Matcher # NoMatcher /\ RunMatcher(last.cmd.Matcher, last.input)) )
           => ~last.ret

\* C2 amended: the two positive cases hold for the commands that keep the
\* default matcher (ignoreDefaultMatcher false) and whose name holds no space;
\* the negative case holds for every command with empty aliases.
C2_Match ==
    (last.op = "Match" /\ last.cmd.Aliases = << >>) =>
        /\ (~last.cmd.IgnoreDefaultMatcher /\ NoSpace(last.cmd.Name)) =>
              /\ last.input = last.cmd.Name => last.ret
              /\ NameThenArgs(last.input, last.cmd.Name) => last.ret
        /\ ( /\ Split(last.input)[1] # last.cmd.Name
             /\ ~(last.cmd.Matcher # NoMatcher /\ RunMatcher(last.cmd.Matcher, last.input)) )
           => ~last.ret

C2_Witness ==
    /\ last.op = "Match"
    /\ last.cmd.Aliases = << >>
    /\ ~last.cmd.IgnoreDefaultMatcher
    /\ last.cmd.Matcher = NoMatcher
    /\ last.cmd.Name = <<"a">>
    /\ last.input = <<"a", " ", "b">>
    /\ last.ret

\* C3 as stated: a command with no handler, handled against any Console state
\* with any input, returns ErrCmdNoHandler.
C3_Original ==
    (last.op = "Handle" /\ last.con # NilConsole /\ Obj(last.cmd).Handler = NoHandler)
        => last.ret = ErrCmdNoHandler

\* C3 amended: a command with no handler that is attached to a Console returns
\* ErrCmdNoHandler for every input, matching or not, unless it has IgnorePipe
\* and the Console's input is a pipe: then Handle returns nil.
C3_NoHandler ==
    (last.op = "Handle" /\ last.con # NilConsole /\ Obj(last.cmd).Handler = NoHandler)
        => last.ret = IF Obj(last.cmd).IgnorePipe /\ consoles[last.con].isOsPipe
                      THEN Nil ELSE ErrCmdNoHandler

C3_Witness ==
    /\ last.op = "Handle"
    /\ last.con # NilConsole
    /\ Obj(last.cmd).Handler = NoHandler
    /\ ~Match(Obj(last.cmd), last.input)
    /\ last.ret = ErrCmdNoHandler

\* C4: Handle on a command with IgnorePipe whose Console reads from a pipe
\* returns nil, does not run the handler and changes no Console state; in the
\* read loop too, such a Handle is followed by no handler call.
C4_IgnorePipe ==
    [][ /\ ( /\ last'.op = "Handle"
             /\ last'.con # NilConsole
             /\ Obj(last'.cmd).IgnorePipe
             /\ consoles[last'.con].isOsPipe )
           => /\ last'.ret = Nil
              /\ ~HasEv(last'.trace, {"Handler", "cancel", "WriteHistory", "LinerClose"})
              /\ consoles' = consoles
              /\ cmdConsole' = cmdConsole
              /\ crashed' = crashed
        /\ last'.op = "read" =>
              \A i \in DOMAIN last'.trace :
                  ( /\ last'.trace[i].ev = "Handle"
                    /\ last'.trace[i].con # NilConsole
                    /\ Obj(last'.trace[i].cmd).IgnorePipe
                    /\ consoles[last'.trace[i].con].isOsPipe )
                  => i = Len(last'.trace) ]_vars

C4_Witness ==
    /\ last.op = "Handle"
    /\ last.con # NilConsole
    /\ Obj(last.cmd).IgnorePipe
    /\ Obj(last.cmd).Handler # NoHandler
    /\ consoles[last.con].isOsPipe
    /\ last.ret = Nil

\* C5 as stated: a Console built with zero options has a registry that holds
\* exactly help, clear and quit.
C5_Original ==
    (last.op = "New" /\ last.ret = Nil /\ consoles[last.con].opts = {}) =>
        {Obj(consoles[last.con].cmds[i]).Name : i \in DOMAIN consoles[last.con].cmds}
            = {sHelp, sClear, sQuit}

\* C5 amended: a Console built with zero options has a registry that holds
\* exactly help and clear, in that order; quit (alias exit) is not a registry
\* entry but the Console's exit command; Close on such a Console returns nil.
C5_ZeroOptions ==
    /\ (last.op = "New" /\ last.ret = Nil /\ consoles[last.con].opts = {}) =>
          /\ consoles[last.con].made
          /\ consoles[last.con].cmds = <<"helpCmd", "clearCmd">>
          /\ [i \in DOMAIN consoles[last.con].cmds |->
                 Obj(consoles[last.con].cmds[i]).Name] = <<sHelp, sClear>>
          /\ consoles[last.con].exitCmd = "quitCmd"
          /\ Values(quitCmd) = {sQuit, sExit}
    /\ (last.op = "Close" /\ consoles[last.con].opts = {}) =>
          last.ret = Nil /\ ~crashed

C5_Witness ==
    /\ last.op = "Close"
    /\ consoles[last.con].opts = {}
    /\ consoles[last.con].cmds = <<"helpCmd", "clearCmd">>
    /\ last.ret = Nil

\* C6: when the read loop dispatches a line "<name> <arg1> ... <argn>" to a
\* command with a handler, the handler receives the text after the command
\* token, "a b" for "echo a b", not the command token itself.
C6_HandlerArgs ==
    last.op = "read" =>
        \A i \in DOMAIN last.trace :
            ( /\ last.trace[i].ev = "Handler"
              /\ splitCmdArgs(TrimSpace(last.input))[1] = Obj(last.trace[i].cmd).Name )
            => last.trace[i].arg = Join(splitCmdArgs(TrimSpace(last.input))[2])

\* C7: a line that is empty or all white space makes the read loop call no
\* Match and no Handle, append nothing to the history and report no error; the
\* loop is back at the prompt.
C7_BlankLine ==
    (last.op = "read" /\ last.ret = Nil /\ IsBlank(last.input)) =>
        /\ last.trace = <<Ev("Prompt", NilCmd, last.con, sEmpty)>>
        /\ consoles[last.con].readPc = "prompt"
        /\ ~crashed

C7_Witness ==
    /\ last.op = "read"
    /\ last.ret = Nil
    /\ last.input = <<"\t", " ">>
    /\ consoles[last.con].readPc = "prompt"

\* C8: on a Console built with zero options whose input is no pipe, a line
\* whose first token is quit or exit is handled by the default exit command,
\* which closes the Console: context cancelled, history flushed, line reader
\* closed, read loop ended.
C8_QuitCloses ==
    ( /\ last.op = "read"
      /\ last.ret = Nil
      /\ consoles[last.con].opts = {}
      /\ ~consoles[last.con].isOsPipe
      /\ splitCmdArgs(TrimSpace(last.input))[1] \in {sQuit, sExit} )
    => /\ ~crashed
       /\ HasEv(last.trace, {"Handler"})
       /\ consoles[last.con].cancelled
       /\ consoles[last.con].historySaved
       /\ consoles[last.con].linerClosed
       /\ consoles[last.con].readPc = "done"

\* C9: for every non-blank line the exit command matches, the exit command is
\* matched first and handled, no registry command is matched or handled, and
\* the read loop stops whatever the exit command's Handle returned.
C9_ExitStopsLoop ==
    ( /\ last.op = "read"
      /\ last.ret = Nil
      /\ ~IsBlank(last.input)
      /\ ~crashed
      /\ consoles[last.con].exitCmd # NilCmd
      /\ Match(Obj(consoles[last.con].exitCmd), TrimSpace(last.input)) )
    => /\ \A i \in DOMAIN last.trace :
              last.trace[i].ev \in {"Match", "Handle"}
                  => last.trace[i].cmd = consoles[last.con].exitCmd
       /\ HasEv(last.trace, {"Handle"})
       /\ consoles[last.con].readPc = "done"

\* C10: when the stat of standard input fails, New returns a pipe detection
\* error and no Console, and does not crash.
C10_StatFails ==
    (last.op = "New" /\ last.input = <<"error">>) =>
        /\ ~crashed
        /\ last.ret \notin {Nil, Panic}
        /\ ~consoles[last.con].made

\* C11: Start returns nil once the read loop has ended or the Console's
\* context is cancelled (by Close or through the parent context), and only
\* then; with the context cancelled it returns even while the read task stays
\* blocked in its prompt read.
C11_StartReturns ==
    /\ [][\A c \in MainConsoles :
            (last'.op = "StartReturn" /\ last'.con = c) =>
                /\ last'.ret = Nil
                /\ consoles[c].readPc = "done" \/ CtxDone(consoles[c], parentDone)]_vars
    /\ \A c \in MainConsoles :
          ( /\ consoles[c].startPc = "waiting"
            /\ consoles[c].readPc = "done" \/ CtxDone(consoles[c], parentDone) )
          ~> (consoles[c].startPc = "returned" \/ crashed)

C11_Witness ==
    /\ last.op = "StartReturn"
    /\ consoles[last.con].startPc = "returned"
    /\ consoles[last.con].readPc = "prompt"
    /\ CtxDone(consoles[last.con], parentDone)
    /\ ~crashed

\* C12: in every Console, whatever RegisterCommands calls were made and
\* whether they succeeded or failed, no two distinct entries of the registry
\* share a value between their name-and-aliases sets.
C12_RegistryDisjoint ==
    \A c \in ConsoleIds :
        \A i, j \in DOMAIN consoles[c].cmds :
            i # j => Values(Obj(consoles[c].cmds[i]))
                         \cap Values(Obj(consoles[c].cmds[j])) = {}

C12_Witness ==
    /\ last.op = "RegisterCommands"
    /\ last.ret # Nil
    /\ Len(last.cands) = 2
    /\ Len(consoles[last.con].cmds) = Len(defaultCmds) + 1

\* the first candidate that shares a value with the registry or with an
\* earlier candidate of the same call (0 when there is none)
FirstConflict(old, cands) ==
    LET Conflicts(k) == \/ \E i \in DOMAIN old : ~Disjoint(old[i], cands[k])
                        \/ \E j \in 1..(k - 1) : ~Disjoint(cands[j], cands[k])
        ks           == {k \in DOMAIN cands : Conflicts(k)}
    IN  IF ks = {} THEN 0 ELSE CHOOSE k \in ks : \A m \in ks : k <= m

\* C13 as stated: a RegisterCommands call that fails at its first conflicting
\* candidate ck leaves the registry as the old registry followed by
\* c1..c(k-1), each with its Console reference set to this Console, and
\* leaves the Console reference of ck and of every later candidate unchanged.
C13_Original ==
    [][(last'.op = "RegisterCommands" /\ last'.ret # Nil) =>
         LET c     == last'.con
             old   == consoles[c].cmds
             cands == last'.cands
             k     == FirstConflict(old, cands)
         IN  /\ k > 0
             /\ consoles'[c].cmds = old \o SubSeq(cands, 1, k - 1)
             /\ \A j \in 1..(k - 1) : cmdConsole'[cands[j]] = c
             /\ \A j \in k..Len(cands) :
                    cmdConsole'[cands[j]] = cmdConsole[cands[j]]]_vars

\* C13: as above, but the Console reference of ck or of a later candidate is
\* left unchanged only when that command object is not also one of
\* c1..c(k-1); an object passed twice was appended and attached the first time.
C13_PartialRegistration ==
    [][(last'.op = "RegisterCommands" /\ last'.ret # Nil) =>
         LET c     == last'.con
             old   == consoles[c].cmds
             cands == last'.cands
             k     == FirstConflict(old, cands)
         IN  /\ k > 0
             /\ consoles'[c].cmds = old \o SubSeq(cands, 1, k - 1)
             /\ \A j \in 1..(k - 1) : cmdConsole'[cands[j]] = c
             /\ \A j \in k..Len(cands) :
                    (\A i \in 1..(k - 1) : cands[i] # cands[j]) =>
                        cmdConsole'[cands[j]] = cmdConsole[cands[j]]]_vars

C13_Witness ==
    /\ last.op = "RegisterCommands"
    /\ last.ret = ErrDuplicate
    /\ last.cands = <<"echoMain", "echoCmd">>
    /\ consoles[last.con].cmds = defaultCmds \o <<"echoMain">>
    /\ cmdConsole["echoMain"] = last.con
    /\ cmdConsole["echoCmd"] = NilConsole

\* the commands on which a trace invokes the events evs, in order
CmdsOf(trace, evs) ==
    LET t == SelectSeq(trace, LAMBDA e : e.ev \in evs)
    IN  [i \in DOMAIN t |-> t[i].cmd]

\* C14: for a non-blank line that the exit command does not match, the
\* registry is scanned in registration order, Handle is invoked on the first
\* command whose Match succeeds and on no other (on none when nothing matches),
\* and the read loop goes on to the next prompt read whatever that Handle did.
C14_FirstMatchOnly ==
    \A c \in MainConsoles :
        LET in   == TrimSpace(last.input)
            e    == consoles[c].exitCmd
            cmds == consoles[c].cmds
            ms   == {i \in DOMAIN cmds : Match(Obj(cmds[i]), in)}
            n    == IF ms = {} THEN Len(cmds)
                    ELSE CHOOSE i \in ms : \A m \in ms : i <= m
        IN  ( /\ last.op = "read" /\ last.con = c
              /\ last.ret = Nil
              /\ in # sEmpty
              /\ e # NilCmd => ~Match(Obj(e), in) )
            => /\ CmdsOf(last.trace, {"Match"}) =
                    (IF e = NilCmd THEN << >> ELSE <<e>>) \o SubSeq(cmds, 1, n)
               /\ CmdsOf(last.trace, {"Handle"}) =
                    (IF ms = {} THEN << >> ELSE <<cmds[n]>>)
               /\ consoles[c].readPc = "prompt"
               /\ ~crashed

\* C15: with D = the input's first token equals the command's name or one of
\* its aliases: when D holds and ignoreDefaultMatcher is false, Match is true
\* and the custom matcher is not invoked; otherwise Match is the custom
\* matcher's result when there is one, and false when there is none.
C15_MatchCases ==
    last.op = "Match" =>
        LET D       == Split(last.input)[1] \in Values(last.cmd)
            invoked == HasEv(last.trace, {"Matcher"})
        IN  IF D /\ ~last.cmd.IgnoreDefaultMatcher
            THEN last.ret /\ ~invoked
            ELSE IF last.cmd.Matcher # NoMatcher
            THEN invoked /\ last.ret = RunMatcher(last.cmd.Matcher, last.input)
            ELSE ~last.ret /\ ~invoked

C15_Witness ==
    /\ last.op = "Match"
    /\ last.cmd.Name = <<"a">>
    /\ last.input = <<"a", " ", "b">>
    /\ last.cmd.IgnoreDefaultMatcher
    /\ last.cmd.Matcher = "matchBang"
    /\ HasEv(last.trace, {"Matcher"})
    /\ ~last.ret

\* C16: a prompt read that ends with a user abort, end of input or any other
\* read error ends the read loop: that turn matches and handles no command and
\* appends no history, no prompt read follows it, and Start returns nil.
C16_ReadErrorEndsLoop ==
    /\ [](\A c \in MainConsoles :
            (last.op = "read" /\ last.con = c /\ last.ret # Nil) =>
                /\ last.trace = <<Ev("Prompt", NilCmd, c, sEmpty)>>
                /\ consoles[c].readPc = "done")
    /\ [][\A c \in MainConsoles :
            /\ (last'.op = "read" /\ last'.con = c /\ last'.ret # Nil) =>
                   consoles'[c].history = consoles[c].history
            /\ (last.op = "read" /\ last.con = c /\ last.ret # Nil) =>
                   /\ last'.op # "read"
                   /\ last'.op = "StartReturn" => last'.ret = Nil]_vars
    /\ \A c \in MainConsoles :
          (last.op = "read" /\ last.con = c /\ last.ret # Nil)
          ~> (consoles[c].startPc = "returned")

C16_Witness ==
    /\ last.op = "StartReturn"
    /\ consoles[last.con].startPc = "returned"
    /\ consoles[last.con].readPc = "done"
    /\ consoles[last.con].history = << >>
    /\ ~consoles[last.con].cancelled
    /\ ~parentDone

\* the operations on the Line Reader: Prompt and AppendHistory by the read
\* task, WriteHistory and Close by whoever calls Console.Close
LinerOps == {"Prompt", "AppendHistory", "WriteHistory", "LinerClose"}

\* C17: once Start was called, while the read task is inside a prompt read no
\* other task performs an operation on the Line Reader: a Close call of the
\* embedding code never touches it while the read task is in its prompt read.
C17_SingleLinerUser ==
    \A c \in MainConsoles :
        (last.op = "Close" /\ last.con = c /\ consoles[c].startPc # "idle") =>
            ~(consoles[c].readPc = "prompt" /\ HasEv(last.trace, LinerOps))

\* C18: whenever the dispatch of a Console invokes Handle on a command, be it
\* the exit command or a registry entry, built-in or registered by the
\* embedding code, that command's Console reference is set and is the
\* dispatching Console.
C18_BackReference ==
    \A c \in MainConsoles :
        (last.op = "read" /\ last.con = c) =>
            \A i \in DOMAIN last.trace :
                last.trace[i].ev = "Handle" => last.trace[i].con = c

\* C19 as stated: after Start has returned, the read task makes no further
\* prompt read and invokes no further handler, whatever the interleaving with
\* a cancel of the parent context and with Close.
C19_Original ==
    [][\A c \in MainConsoles :
          consoles[c].startPc = "returned" =>
              ~(last'.op = "read" /\ last'.con = c)]_vars

\* C19: after Start has returned with the context not cancelled, the read loop
\* has ended, and an ended loop makes no prompt read and invokes no handler; a
\* read turn after Start has returned happens only when Start returned through
\* the cancelled context while the read task was still in its loop.
C19_NoReadAfterLoopEnd ==
    /\ [](\A c \in MainConsoles :
            consoles[c].startPc = "returned" =>
                consoles[c].readPc = "done" \/ CtxDone(consoles[c], parentDone))
    /\ [][\A c \in MainConsoles :
            /\ consoles[c].readPc = "done" =>
                   /\ ~(last'.op = "read" /\ last'.con = c)
                   /\ consoles'[c].readPc = "done"
            /\ ( /\ consoles[c].startPc = "returned"
                 /\ last'.op = "read" /\ last'.con = c )
               => /\ CtxDone(consoles[c], parentDone)
                  /\ consoles[c].readPc = "prompt"]_vars

C19_Witness ==
    /\ last.op = "read"
    /\ consoles[last.con].startPc = "returned"
    /\ CtxDone(consoles[last.con], parentDone)
    /\ HasEv(last.trace, {"Handler"})
    /\ ~crashed

\* every command of the Console, the exit command included, has a handler and
\* uses the default matcher only
DefaultMatchedHandlers(c) ==
    /\ consoles[c].exitCmd # NilCmd
    /\ \A id \in {consoles[c].exitCmd}
                 \cup {consoles[c].cmds[i] : i \in DOMAIN consoles[c].cmds} :
          /\ Obj(id).Handler # NoHandler
          /\ Obj(id).Matcher = NoMatcher
          /\ ~Obj(id).IgnoreDefaultMatcher

\* C20: in a Console whose commands all have a handler and use only the
\* default matcher, every command RegisterCommands accepted is reachable: the
\* dispatch of a line equal to its name or to one of its aliases invokes Handle
\* on that command, and on no other command and not on the exit command.
C20_AcceptedIsReachable ==
    \A c \in MainConsoles :
        (last.op = "read" /\ last.con = c /\ last.ret = Nil
           /\ DefaultMatchedHandlers(c)) =>
            \A i \in (Len(defaultCmds) + 1)..Len(consoles[c].cmds) :
                TrimSpace(last.input) \in Values(Obj(consoles[c].cmds[i])) =>
                    CmdsOf(last.trace, {"Handle"}) = <<consoles[c].cmds[i]>>

====
